---- MODULE Spec2Model ----
(***************************************************************************)
(* The four HTTP resolvers of game_tracker's cloud functions:              *)
(* fetchSuggestions, fetchSteamGames, fetchPSGames and fetchXboxGames.     *)
(* Every request is one cooperatively suspended execution; it is          *)
(* suspended exactly at its outbound calls (the awaits), so every action   *)
(* below is the code between two awaits.  The upstream services are the    *)
(* environment: every reply they can give is drawn with \E.                *)
(***************************************************************************)
EXTENDS Integers, Sequences, FiniteSets, TLC

\* ------------------------------------------------------------------ bounds
\* most pages the Platform-B upstream hands out before it must signal the end
MaxPages == 3
\* most titles the Platform-B upstream hands out over all pages of one request
MaxLibrary == 2
\* longest list a single-call upstream (search, owned games, title history) returns
MaxTitles == 2

\* ------------------------------------------------------------- JS values
\* the JavaScript values undefined and null where a string is expected; no
\* upstream string of the model equals either marker
Undefined == "<undefined>"
Null == "<null>"

\* the request slots; Spec runs the one request of Solo
Reqs == {1, 2}
Solo == {1}

SeqUpTo(S, n) == UNION {[1..k -> S] : k \in 0..n}

\* obj.f of a parsed JSON object: undefined when the field is absent
Prop(obj, f) == IF f \in DOMAIN obj THEN obj[f] ELSE Undefined

\* String(v)
JsString(v) ==
  IF v = Undefined THEN "undefined" ELSE IF v = Null THEN "null" ELSE v

\* s.trim(), on the strings the model's upstream sends
Trim(s) ==
  CASE s = " " -> ""
    [] s = " 2533 " -> "2533"
    [] OTHER -> s

\* JSON.stringify drops the properties whose value is undefined and keeps
\* null and the empty string
ToJson(obj) == [k \in {f \in DOMAIN obj : obj[f] # Undefined} |-> obj[k]]

\* --------------------------------------------------------- the upstreams
\* a fetch() or library call that rejects (network error)
Throw == [kind |-> "throw"]

\* HTTP statuses the upstreams answer with besides 200
FailStatuses == {400, 404, 503}

\* what fetch() resolves or rejects with: a rejection, a non-2xx response, a
\* 2xx response whose body is not JSON, a 2xx response with a JSON body
FetchReplies(Bodies) ==
  {Throw}
    \cup {[kind |-> "response", status |-> s] : s \in FailStatuses}
    \cup {[kind |-> "response", status |-> 200]}
    \cup {[kind |-> "response", status |-> 200, json |-> b] : b \in Bodies}

\* what a psn-api call resolves or rejects with
LibReplies(Values) == {Throw} \cup {[kind |-> "value", value |-> v] : v \in Values}

\* query-parameter values: absent, empty, present
Params == {Undefined, "", "player1"}

RawgGames ==
  { [id |-> 1, name |-> "Game A", background_image |-> "a.png"],
    [id |-> 2, name |-> "Game B"] }

RawgBodies == {[count |-> Len(s), results |-> s] : s \in SeqUpTo(RawgGames, MaxTitles)}

SteamGames ==
  { [appid |-> 10, name |-> "Game A", playtime_forever |-> 5, img_icon_url |-> "h1"],
    [appid |-> 20, name |-> "Game B", playtime_forever |-> 0, img_icon_url |-> "h2"] }

VanityBodies ==
  { [response |-> [success |-> 1, steamid |-> "76561198000000000"]],
    [response |-> [success |-> 42, message |-> "No match"]],
    [response |-> [success |-> 0]],
    [error |-> "bad request"] }

OwnedBodies ==
  {[response |-> [game_count |-> Len(s), games |-> s]] : s \in SeqUpTo(SteamGames, MaxTitles)}
    \cup {[response |-> [game_count |-> 0]]}

PsTitles ==
  { [titleId |-> "CUSA00001", name |-> "Game A", category |-> "ps4_game",
     imageUrl |-> "a.png"],
    [titleId |-> "PPSA00002", name |-> "Game B", category |-> "ps5_native_game"],
    [titleId |-> "NPXS00003", name |-> "Media App", category |-> "ps4_videoservice_web_app",
     imageUrl |-> "c.png"] }

SearchValues ==
  { [domainResponses |-> <<>>],
    [domainResponses |-> <<[results |-> <<>>]>>],
    [domainResponses |-> <<[results |-> <<[socialMetadata |-> [accountId |-> "acc-1"]]>>]>>],
    [domainResponses |->
       <<[results |-> <<[socialMetadata |-> [accountId |-> "acc-2"]],
                        [socialMetadata |-> [accountId |-> "acc-1"]]>>]>>] }

\* next-offset values a page carries besides "absent"
NextOffsets == {0, 100, 200}

\* the pages the upstream can return when it has already returned `fetched`
\* pages holding `given` titles: a page whose nextOffset is non-zero is
\* returned only while fewer than MaxPages - 1 pages came before it
PageValues(fetched, given) ==
  LET lists == SeqUpTo(PsTitles, MaxLibrary - given)
      offs == IF fetched + 1 < MaxPages THEN NextOffsets ELSE {0}
  IN {[titles |-> ts, nextOffset |-> n] : ts \in lists, n \in offs}
       \cup {[titles |-> ts] : ts \in lists}
       \cup {[nextOffset |-> n] : n \in offs}

XboxPeople ==
  { [xuid |-> "2533", gamertag |-> "player1"],
    [xuid |-> " 2533 ", gamertag |-> "player1"],
    [xuid |-> " ", gamertag |-> "player1"],
    [xuid |-> "", gamertag |-> "player1"],
    [gamertag |-> "player1"] }

XuidBodies ==
  {[people |-> s] : s \in SeqUpTo(XboxPeople, 1)}
    \cup {[people |-> <<[xuid |-> "", gamertag |-> "a"], [xuid |-> "2533", gamertag |-> "b"]>>]}
    \cup {[code |-> "error"]}

XboxTitles ==
  { [titleId |-> "1717113201", name |-> "Game A", displayImage |-> "a.png"],
    [titleId |-> "", name |-> "", displayImage |-> ""],
    [titleId |-> "219630713", name |-> "Game C", displayImage |-> Null],
    [titleId |-> "9", name |-> "Game D"] }

TitleHistoryBodies ==
  {[xuid |-> "2533", titles |-> s] : s \in SeqUpTo(XboxTitles, MaxTitles)}
    \cup {[xuid |-> "2533"]}

\* ------------------------------------------------------------------ state
VARIABLES
  resolver,       \* per request: the handler invoked
  param,          \* per request: the value of its required query parameter
  pc,             \* per request: "idle", the await it is suspended at, "done"
  calls,          \* per request: the outbound calls made, in order
  pageReqs,       \* per request: the {limit, offset} of each getUserPlayedGames call
  replies,        \* per request: what each outbound call resolved or rejected with
  sent,           \* per request: the responses sent, in order
  steamID,        \* fetchSteamGames: steamID
  accessCode,     \* fetchPSGames: accessCode
  authorization,  \* fetchPSGames: authorization
  accountId,      \* fetchPSGames: accountId
  psGames,        \* fetchPSGames: psGames
  offset,         \* fetchPSGames: offset
  hasNextPage,    \* fetchPSGames: hasNextPage
  numericId       \* fetchXboxGames: numericId

vars ==
  <<resolver, param, pc, calls, pageReqs, replies, sent, steamID, accessCode,
    authorization, accountId, psGames, offset, hasNextPage, numericId>>

steamLocals == <<steamID>>
psLocals == <<accessCode, authorization, accountId, psGames, offset, hasNextPage, pageReqs>>
xboxLocals == <<numericId>>

Init ==
  /\ resolver = [r \in Reqs |-> "none"]
  /\ param = [r \in Reqs |-> Undefined]
  /\ pc = [r \in Reqs |-> "idle"]
  /\ calls = [r \in Reqs |-> <<>>]
  /\ pageReqs = [r \in Reqs |-> <<>>]
  /\ replies = [r \in Reqs |-> <<>>]
  /\ sent = [r \in Reqs |-> <<>>]
  /\ steamID = [r \in Reqs |-> Undefined]
  /\ accessCode = [r \in Reqs |-> Undefined]
  /\ authorization = [r \in Reqs |-> Undefined]
  /\ accountId = [r \in Reqs |-> Undefined]
  /\ psGames = [r \in Reqs |-> <<>>]
  /\ offset = [r \in Reqs |-> 0]
  /\ hasNextPage = [r \in Reqs |-> FALSE]
  /\ numericId = [r \in Reqs |-> Undefined]

\* ------------------------------------------------------- shared fragments
\* a check that takes the empty string for a present parameter
FalsyOnlyUndefined(v) == v = Undefined

\* `!searchQuery`, `!steamVanityName`, `!psnUsername`, `!numericId`
Falsy(v) == v \in {Undefined, Null, ""}

\* a check that takes every status below 500 for a success
HttpOkBelow500(status) == status < 500

\* response.ok
HttpOk(status) == status \in 200..299

\* the request starts: req.query.<name> is read
Begin(r, name, value) ==
  /\ pc[r] = "idle"
  /\ resolver' = [resolver EXCEPT ![r] = name]
  /\ param' = [param EXCEPT ![r] = value]

\* an error response without the return after it: the handler goes on
SendTextNoReturn(r, s, text) ==
  /\ sent' = [sent EXCEPT ![r] = Append(@, [status |-> s, text |-> text])]
  /\ pc' = pc

\* res.status(s).send(text); return
SendText(r, s, text) ==
  /\ sent' = [sent EXCEPT ![r] = Append(@, [status |-> s, text |-> text])]
  /\ pc' = [pc EXCEPT ![r] = "done"]

\* res.status(s).json(value)
SendJson(r, s, value) ==
  /\ sent' = [sent EXCEPT ![r] = Append(@, [status |-> s, json |-> value])]
  /\ pc' = [pc EXCEPT ![r] = "done"]

\* a catch block that answers with what was accumulated so far
CatchPartial(r, text) ==
  SendJson(r, 500, [total |-> Len(psGames[r]), games |-> psGames[r]])

\* a catch block that rethrows: the handler dies without answering
CatchRethrow(r, text) ==
  /\ pc' = [pc EXCEPT ![r] = "crashed"]
  /\ UNCHANGED sent

\* the catch block: logger.error(...); res.status(500).send(text)
Catch(r, text) == SendText(r, 500, text)

\* an await that issues its call a second time
AwaitTwice(r, api, at) ==
  /\ calls' = [calls EXCEPT ![r] = Append(Append(@, api), api)]
  /\ pc' = [pc EXCEPT ![r] = at]

\* await <api>(...): the call goes out and the request is suspended
Await(r, api, at) ==
  /\ calls' = [calls EXCEPT ![r] = Append(@, api)]
  /\ pc' = [pc EXCEPT ![r] = at]

\* the awaited call settles with `reply`
Resume(r, at, reply) ==
  /\ pc[r] = at
  /\ replies' = [replies EXCEPT ![r] = Append(@, reply)]

\* response.json() resolves
Parses(reply) == "json" \in DOMAIN reply

\* ------------------------------------------------------- fetchSuggestions
fetchSuggestions(r, searchQuery) ==
  /\ Begin(r, "fetchSuggestions", searchQuery)
  /\ IF Falsy(searchQuery)
       THEN SendText(r, 400, "Missing search query") /\ UNCHANGED calls
       ELSE Await(r, "rawg/games", "awaitSuggestions") /\ UNCHANGED sent
  /\ UNCHANGED <<replies, steamLocals, psLocals, xboxLocals>>

fetchSuggestionsResume(r, response) ==
  /\ Resume(r, "awaitSuggestions", response)
  /\ IF response.kind = "throw"
       THEN Catch(r, "Failed to fetch game suggestions")
       ELSE IF ~HttpOk(response.status)
         THEN SendText(r, response.status, "Failed to fetch game suggestions")
         ELSE IF ~Parses(response)
           THEN Catch(r, "Failed to fetch game suggestions")
           ELSE SendJson(r, 200, response.json.results)
  /\ UNCHANGED <<resolver, param, calls, steamLocals, psLocals, xboxLocals>>

\* -------------------------------------------------------- fetchSteamGames
\* the two builds of the resolver: the one that returns {games: simplifiedGames}
\* and the one of functions/src/index.ts that returns gamesData.response
SteamBuilds == {"fetchSteamGames", "fetchSteamGamesIndex"}

\* a check that knows the not-found code 0 only
VanityNotFoundOnlyZero(data) == data.response.success = 0

\* data.response.success !== 1
VanityNotFound(data) == data.response.success # 1

\* gamesData.response.games.map((game) => ({appid: game.appid, name: game.name}))
simplifiedGames(games) ==
  [i \in 1..Len(games) |-> [appid |-> games[i].appid, name |-> games[i].name]]

fetchSteamGames(r, build, steamVanityName) ==
  /\ Begin(r, build, steamVanityName)
  /\ IF Falsy(steamVanityName)
       THEN SendText(r, 400, "Missing Steam vanity URL") /\ UNCHANGED calls
       ELSE Await(r, "ISteamUser/ResolveVanityURL", "awaitVanity") /\ UNCHANGED sent
  /\ UNCHANGED <<replies, steamLocals, psLocals, xboxLocals>>

fetchSteamGamesVanity(r, response) ==
  /\ Resume(r, "awaitVanity", response)
  /\ IF response.kind = "throw"
       THEN Catch(r, "Failed to fetch Steam games") /\ UNCHANGED <<calls, steamID>>
       ELSE IF ~HttpOk(response.status)
         THEN /\ SendText(r, response.status, "Failed to fetch Steam user")
              /\ UNCHANGED <<calls, steamID>>
         ELSE IF ~Parses(response) \/ "response" \notin DOMAIN response.json
           THEN Catch(r, "Failed to fetch Steam games") /\ UNCHANGED <<calls, steamID>>
           ELSE IF VanityNotFound(response.json)
             THEN /\ SendText(r, 404, "Steam user not found")
                  /\ UNCHANGED <<calls, steamID>>
             ELSE /\ steamID' = [steamID EXCEPT ![r] = Prop(response.json.response, "steamid")]
                  /\ Await(r, "IPlayerService/GetOwnedGames", "awaitOwnedGames")
                  /\ UNCHANGED sent
  /\ UNCHANGED <<resolver, param, psLocals, xboxLocals>>

fetchSteamGamesOwned(r, gamesResponse) ==
  /\ Resume(r, "awaitOwnedGames", gamesResponse)
  /\ IF gamesResponse.kind = "throw"
       THEN Catch(r, "Failed to fetch Steam games")
       ELSE IF ~HttpOk(gamesResponse.status)
         THEN SendText(r, gamesResponse.status, "Failed to fetch Steam games")
         ELSE IF ~Parses(gamesResponse)
           THEN Catch(r, "Failed to fetch Steam games")
           ELSE IF resolver[r] = "fetchSteamGamesIndex"
             THEN SendJson(r, 200, gamesResponse.json.response)
             ELSE IF "games" \notin DOMAIN gamesResponse.json.response
               THEN Catch(r, "Failed to fetch Steam games")
               ELSE SendJson(r, 200,
                      [games |-> simplifiedGames(gamesResponse.json.response.games)])
  /\ UNCHANGED <<resolver, param, calls, steamLocals, psLocals, xboxLocals>>

\* ----------------------------------------------------------- fetchPSGames
\* page size of every getUserPlayedGames call: {limit: 100, offset}
PageLimit == 100

\* accountSearch.domainResponses[0].results[0] is undefined: reading
\* .socialMetadata of it throws a TypeError
NoAccount(accountSearch) ==
  \/ Len(accountSearch.domainResponses) = 0
  \/ Len(accountSearch.domainResponses[1].results) = 0

\* accountSearch.domainResponses[0].results[0].socialMetadata.accountId
FirstAccountId(accountSearch) ==
  accountSearch.domainResponses[1].results[1].socialMetadata.accountId

\* a filter that forgets the ps5_native_game category
KeepTitleOnlyPs4(game) == game.category = "ps4_game"

\* game.category === "ps4_game" || game.category === "ps5_native_game"
KeepTitle(game) == game.category = "ps4_game" \/ game.category = "ps5_native_game"

\* {appid: game.titleId, name: game.name, logo: game.imageUrl}
PsGame(game) ==
  [appid |-> Prop(game, "titleId"), name |-> Prop(game, "name"),
   logo |-> Prop(game, "imageUrl")]

\* playedGames.titles.forEach(...): psGames after the titles from index i on
\* were visited in order, each kept title pushed at the end
RECURSIVE PushKept(_, _, _)
PushKept(games, titles, i) ==
  IF i > Len(titles) THEN games
  ELSE PushKept(IF KeepTitle(titles[i]) THEN Append(games, PsGame(titles[i])) ELSE games,
                titles, i + 1)

\* a loop test that also stops at a page shorter than the page size
NoNextPageOrShortPage(playedGames) ==
  \/ "nextOffset" \notin DOMAIN playedGames
  \/ playedGames.nextOffset = 0
  \/ Len(playedGames.titles) < PageLimit

\* a loop test that takes an absent nextOffset for a further page
NoNextPageOnlyZero(playedGames) ==
  "nextOffset" \in DOMAIN playedGames /\ playedGames.nextOffset = 0

\* !playedGames.nextOffset || playedGames.nextOffset === 0
NoNextPage(playedGames) ==
  "nextOffset" \notin DOMAIN playedGames \/ playedGames.nextOffset = 0

\* a cursor that steps by the page size instead of taking the upstream's value
NextOffsetIsLimit(playedGames) ==
  IF "nextOffset" \in DOMAIN playedGames /\ playedGames.nextOffset # 0 THEN PageLimit ELSE 0

\* playedGames.nextOffset ?? 0
NextOffsetOr0(playedGames) ==
  IF "nextOffset" \in DOMAIN playedGames THEN playedGames.nextOffset ELSE 0

\* the body of res.json({total: psGames.length, games: psGames})
PsBody(games) ==
  [total |-> Len(games), games |-> [i \in 1..Len(games) |-> ToJson(games[i])]]

\* the replies to the getUserPlayedGames calls of request r so far
PageReplies(r) ==
  IF Len(replies[r]) > 3 THEN SubSeq(replies[r], 4, Len(replies[r])) ELSE <<>>

\* the titles the upstream has handed out in those replies
RECURSIVE TitleCount(_)
TitleCount(pageReplies) ==
  IF pageReplies = <<>> THEN 0
  ELSE (IF Head(pageReplies).kind = "value" /\ "titles" \in DOMAIN Head(pageReplies).value
          THEN Len(Head(pageReplies).value.titles) ELSE 0)
         + TitleCount(Tail(pageReplies))

\* what the played-games upstream can answer to the next call of request r;
\* it hands out at most MaxPages pages, the last of them without a further
\* page, and has no answer to a call made after them
PlayedGamesReplies(r) ==
  IF Len(PageReplies(r)) >= MaxPages THEN {}
  ELSE LibReplies(PageValues(Len(PageReplies(r)), TitleCount(PageReplies(r))))

fetchPSGames(r, psnUsername) ==
  /\ Begin(r, "fetchPSGames", psnUsername)
  /\ IF Falsy(psnUsername)
       THEN SendText(r, 400, "Missing PSN username") /\ UNCHANGED calls
       ELSE Await(r, "exchangeNpssoForAccessCode", "awaitAccessCode") /\ UNCHANGED sent
  /\ UNCHANGED <<replies, steamLocals, psLocals, xboxLocals>>

fetchPSGamesAccessCode(r, reply) ==
  /\ Resume(r, "awaitAccessCode", reply)
  /\ IF reply.kind = "throw"
       THEN Catch(r, "Failed to fetch PS games") /\ UNCHANGED <<calls, accessCode>>
       ELSE /\ accessCode' = [accessCode EXCEPT ![r] = reply.value]
            /\ Await(r, "exchangeAccessCodeForAuthTokens", "awaitAuthTokens")
            /\ UNCHANGED sent
  /\ UNCHANGED <<resolver, param, steamLocals, xboxLocals, authorization, accountId,
                 psGames, offset, hasNextPage, pageReqs>>

fetchPSGamesAuthTokens(r, reply) ==
  /\ Resume(r, "awaitAuthTokens", reply)
  /\ IF reply.kind = "throw"
       THEN Catch(r, "Failed to fetch PS games") /\ UNCHANGED <<calls, authorization>>
       ELSE /\ authorization' = [authorization EXCEPT ![r] = reply.value]
            /\ Await(r, "makeUniversalSearch", "awaitSearch")
            /\ UNCHANGED sent
  /\ UNCHANGED <<resolver, param, steamLocals, xboxLocals, accessCode, accountId,
                 psGames, offset, hasNextPage, pageReqs>>

fetchPSGamesSearch(r, reply) ==
  /\ Resume(r, "awaitSearch", reply)
  /\ IF reply.kind = "throw" \/ NoAccount(reply.value)
       THEN /\ Catch(r, "Failed to fetch PS games")
            /\ UNCHANGED <<calls, accountId, psGames, offset, hasNextPage, pageReqs>>
       ELSE /\ accountId' = [accountId EXCEPT ![r] = FirstAccountId(reply.value)]
            /\ psGames' = [psGames EXCEPT ![r] = <<>>]
            /\ offset' = [offset EXCEPT ![r] = 0]
            /\ hasNextPage' = [hasNextPage EXCEPT ![r] = TRUE]
            /\ pageReqs' = [pageReqs EXCEPT ![r] =
                              Append(@, [limit |-> PageLimit, offset |-> 0])]
            /\ Await(r, "getUserPlayedGames", "awaitPlayedGames")
            /\ UNCHANGED sent
  /\ UNCHANGED <<resolver, param, steamLocals, xboxLocals, accessCode, authorization>>

\* a list declared at module level: every request pushes onto the first one's
AccumulatedShared(r) == psGames[1]

\* const psGames: PsGame[] = [] is declared inside the handler: the list a
\* request pushes onto is its own
Accumulated(r) == psGames[r]

\* one iteration of the while loop, from the reply to its getUserPlayedGames
\* call to the next call or to the response after the loop
fetchPSGamesPage(r, reply) ==
  /\ Resume(r, "awaitPlayedGames", reply)
  /\ IF reply.kind = "throw" \/ "titles" \notin DOMAIN reply.value
       THEN /\ Catch(r, "Failed to fetch PS games")
            /\ UNCHANGED <<calls, psGames, offset, hasNextPage, pageReqs>>
       ELSE LET playedGames == reply.value
                games == PushKept(Accumulated(r), playedGames.titles, 1)
                more == IF NoNextPage(playedGames) THEN FALSE ELSE hasNextPage[r]
                next == NextOffsetOr0(playedGames)
            IN /\ psGames' = [psGames EXCEPT ![r] = games]
               /\ hasNextPage' = [hasNextPage EXCEPT ![r] = more]
               /\ offset' = [offset EXCEPT ![r] = next]
               /\ IF more
                    THEN /\ pageReqs' = [pageReqs EXCEPT ![r] =
                                           Append(@, [limit |-> PageLimit, offset |-> next])]
                         /\ Await(r, "getUserPlayedGames", "awaitPlayedGames")
                         /\ UNCHANGED sent
                    ELSE /\ SendJson(r, 200, PsBody(games))
                         /\ UNCHANGED <<calls, pageReqs>>
  /\ UNCHANGED <<resolver, param, steamLocals, xboxLocals, accessCode, authorization,
                 accountId>>

\* --------------------------------------------------------- fetchXboxGames
\* xuidData.people[0] is undefined (or people is): reading .xuid throws
NoPerson(xuidData) == "people" \notin DOMAIN xuidData \/ Len(xuidData.people) = 0

\* an ID taken without trimming
NumericIdNoTrim(xuidData) == JsString(Prop(xuidData.people[1], "xuid"))

\* String(xuidData.people[0].xuid).trim()
NumericId(xuidData) == Trim(JsString(Prop(xuidData.people[1], "xuid")))

\* a normalisation that leaves the logo out
XboxGameNoLogo(game) == [appid |-> Prop(game, "titleId"), name |-> Prop(game, "name")]

\* {appid: game.titleId, name: game.name, logo: game.displayImage}
XboxGame(game) ==
  [appid |-> Prop(game, "titleId"), name |-> Prop(game, "name"),
   logo |-> Prop(game, "displayImage")]

\* data.titles || []
TitlesOrEmpty(data) == IF "titles" \in DOMAIN data THEN data.titles ELSE <<>>

\* the body of res.json({games: gamesInfo, total: titles.length})
XboxBody(titles) ==
  [games |-> [i \in 1..Len(titles) |-> ToJson(XboxGame(titles[i]))],
   total |-> Len(titles)]

\* a handler that validates username the way the other three validate theirs
fetchXboxGamesValidated(r, username) ==
  /\ Begin(r, "fetchXboxGames", username)
  /\ IF Falsy(username)
       THEN SendText(r, 400, "Missing Xbox username") /\ UNCHANGED calls
       ELSE Await(r, "xbl/search", "awaitXuid") /\ UNCHANGED sent
  /\ UNCHANGED <<replies, steamLocals, psLocals, xboxLocals>>

fetchXboxGames(r, username) ==
  /\ Begin(r, "fetchXboxGames", username)
  /\ Await(r, "xbl/search", "awaitXuid")
  /\ UNCHANGED <<replies, sent, steamLocals, psLocals, xboxLocals>>

fetchXboxGamesXuid(r, usernameResp) ==
  /\ Resume(r, "awaitXuid", usernameResp)
  /\ IF usernameResp.kind = "throw"
       THEN Catch(r, "Failed to fetch Xbox games") /\ UNCHANGED <<calls, numericId>>
       ELSE IF ~HttpOk(usernameResp.status)
         THEN /\ SendText(r, usernameResp.status, "Failed to fetch Xbox XUID")
              /\ UNCHANGED <<calls, numericId>>
         ELSE IF ~Parses(usernameResp) \/ NoPerson(usernameResp.json)
           THEN Catch(r, "Failed to fetch Xbox games") /\ UNCHANGED <<calls, numericId>>
           ELSE /\ numericId' = [numericId EXCEPT ![r] = NumericId(usernameResp.json)]
                /\ IF Falsy(NumericId(usernameResp.json))
                     THEN SendText(r, 404, "Xbox user not found") /\ UNCHANGED calls
                     ELSE Await(r, "xbl/player/titleHistory", "awaitTitleHistory")
                            /\ UNCHANGED sent
  /\ UNCHANGED <<resolver, param, steamLocals, psLocals>>

fetchXboxGamesTitles(r, resp) ==
  /\ Resume(r, "awaitTitleHistory", resp)
  /\ IF resp.kind = "throw"
       THEN Catch(r, "Failed to fetch Xbox games")
       ELSE IF ~HttpOk(resp.status)
         THEN SendText(r, resp.status, "Failed to fetch Xbox games, resp not ok")
         ELSE IF ~Parses(resp)
           THEN Catch(r, "Failed to fetch Xbox games")
           ELSE SendJson(r, 200, XboxBody(TitlesOrEmpty(resp.json)))
  /\ UNCHANGED <<resolver, param, calls, steamLocals, psLocals, xboxLocals>>

\* ---------------------------------------------------------- specification
\* one step of request r: it is invoked, or one of its awaited calls settles
Step(r) ==
  \/ \E q \in Params : fetchSuggestions(r, q)
  \/ \E reply \in FetchReplies(RawgBodies) : fetchSuggestionsResume(r, reply)
  \/ \E b \in SteamBuilds, v \in Params : fetchSteamGames(r, b, v)
  \/ \E reply \in FetchReplies(VanityBodies) : fetchSteamGamesVanity(r, reply)
  \/ \E reply \in FetchReplies(OwnedBodies) : fetchSteamGamesOwned(r, reply)
  \/ \E u \in Params : fetchPSGames(r, u)
  \/ \E reply \in LibReplies({"access-code-1"}) : fetchPSGamesAccessCode(r, reply)
  \/ \E reply \in LibReplies({"auth-1"}) : fetchPSGamesAuthTokens(r, reply)
  \/ \E reply \in LibReplies(SearchValues) : fetchPSGamesSearch(r, reply)
  \/ \E reply \in PlayedGamesReplies(r) : fetchPSGamesPage(r, reply)
  \/ \E u \in Params : fetchXboxGames(r, u)
  \/ \E reply \in FetchReplies(XuidBodies) : fetchXboxGamesXuid(r, reply)
  \/ \E reply \in FetchReplies(TitleHistoryBodies) : fetchXboxGamesTitles(r, reply)

Next == \E r \in Solo : Step(r)

Spec == Init /\ [][Next]_vars

\* the scheduling of the host: an awaited call that has settled resumes its
\* request, so a request that can take a step eventually takes one
FairSpec == Spec /\ \A r \in Solo : WF_vars(Step(r))

\* ---------------------------------------- an upstream that never ends
\* most pages the never-ending upstream is followed for
MaxLoopPages == 3

\* a played-games upstream that returns a non-zero nextOffset on every page
\* and never fails
LoopPageValues ==
  {[titles |-> ts, nextOffset |-> n] : ts \in SeqUpTo(PsTitles, 1), n \in NextOffsets \ {0}}

LoopReplies(r) ==
  IF Len(PageReplies(r)) >= MaxLoopPages THEN {}
  ELSE {[kind |-> "value", value |-> v] : v \in LoopPageValues}

\* the account searches that find an account
FoundAccounts == {v \in SearchValues : ~NoAccount(v)}

LoopStep(r) ==
  \/ fetchPSGames(r, "player1")
  \/ fetchPSGamesAccessCode(r, [kind |-> "value", value |-> "access-code-1"])
  \/ fetchPSGamesAuthTokens(r, [kind |-> "value", value |-> "auth-1"])
  \/ \E v \in FoundAccounts : fetchPSGamesSearch(r, [kind |-> "value", value |-> v])
  \/ \E reply \in LoopReplies(r) : fetchPSGamesPage(r, reply)

LoopNext == \E r \in Solo : LoopStep(r)

LoopSpec == Init /\ [][LoopNext]_vars

\* ------------------------------------------ two requests in flight
\* most pages the upstream hands out to each of two concurrent requests
MaxConcPages == 2

ConcTitleLists == SeqUpTo({t \in PsTitles : t.category # "ps5_native_game"}, 1)

\* the pages the upstream can return to a request that has fetched `fetched`
ConcPageValues(fetched) ==
  {[titles |-> ts] : ts \in ConcTitleLists}
    \cup (IF fetched + 1 < MaxConcPages
            THEN {[titles |-> ts, nextOffset |-> 100] : ts \in ConcTitleLists}
            ELSE {})

ConcReplies(r) ==
  IF Len(PageReplies(r)) >= MaxConcPages THEN {}
  ELSE LibReplies(ConcPageValues(Len(PageReplies(r))))

\* one step of request r while another fetchPSGames request is in flight
ConcStep(r) ==
  \/ fetchPSGames(r, "player1")
  \/ \E reply \in LibReplies({"access-code-1", "access-code-2"}) :
       fetchPSGamesAccessCode(r, reply)
  \/ \E reply \in LibReplies({"auth-1"}) : fetchPSGamesAuthTokens(r, reply)
  \/ \E reply \in LibReplies(FoundAccounts) : fetchPSGamesSearch(r, reply)
  \/ \E reply \in ConcReplies(r) : fetchPSGamesPage(r, reply)

\* the host interleaves the requests at their awaits
ConcNext == \E r \in Reqs : ConcStep(r)

ConcSpec == Init /\ [][ConcNext]_vars

\* ------------------------------------------------------------ properties
IsPS(r) == resolver[r] = "fetchPSGames"
IsSteam(r) == resolver[r] \in SteamBuilds
IsXbox(r) == resolver[r] = "fetchXboxGames"
IsSearch(r) == resolver[r] = "fetchSuggestions"

\* request r has sent exactly one response, with status s
Answered(r, s) == pc[r] = "done" /\ Len(sent[r]) = 1 /\ sent[r][1].status = s

\* request r has sent a success response with a JSON body
Succeeded(r) == Len(sent[r]) = 1 /\ sent[r][1].status = 200 /\ "json" \in DOMAIN sent[r][1]

\* reply i of request r is an HTTP response with a 2xx status and a JSON body
OkJson(r, i) ==
  /\ i <= Len(replies[r])
  /\ replies[r][i].kind = "response"
  /\ replies[r][i].status = 200
  /\ "json" \in DOMAIN replies[r][i]

\* all titles of the pages, page after page
RECURSIVE AllTitles(_)
AllTitles(pageReplies) ==
  IF pageReplies = <<>> THEN <<>>
  ELSE Head(pageReplies).value.titles \o AllTitles(Tail(pageReplies))

Accepted(t) == t.category \in {"ps4_game", "ps5_native_game"}

ExpectedPsGame(t) ==
  IF "imageUrl" \in DOMAIN t
    THEN [appid |-> t.titleId, name |-> t.name, logo |-> t.imageUrl]
    ELSE [appid |-> t.titleId, name |-> t.name]

\* C1: a successful fetchPSGames response lists exactly the ps4_game and
\* ps5_native_game titles of all fetched pages, in page order and then
\* within-page order, each as {appid: titleId, name, logo: imageUrl}, and
\* total is the length of games.
C1_PsGamesExact ==
  \A r \in Reqs :
    (IsPS(r) /\ Succeeded(r)) =>
      LET kept == SelectSeq(AllTitles(PageReplies(r)), Accepted)
          body == sent[r][1].json
      IN /\ body.games = [i \in 1..Len(kept) |-> ExpectedPsGame(kept[i])]
         /\ body.total = Len(body.games)

\* C1 witness: a success after two pages, the first holding a title of
\* another category, which is dropped, and the second a title that is kept.
C1_Witness ==
  \E r \in Reqs :
    /\ IsPS(r) /\ Succeeded(r)
    /\ Len(PageReplies(r)) = 2
    /\ Len(PageReplies(r)[1].value.titles) = 1
    /\ ~Accepted(PageReplies(r)[1].value.titles[1])
    /\ Len(PageReplies(r)[2].value.titles) = 1
    /\ Accepted(PageReplies(r)[2].value.titles[1])
    /\ sent[r][1].json.total = 1

\* C2: once fetchPSGames is draining pages and the upstream's page sequence
\* is finite, the loop exits and the request sends its one response.
C2_DrainTerminates ==
  \A r \in Solo :
    (pc[r] = "awaitPlayedGames") ~> (pc[r] = "done" /\ Len(sent[r]) = 1)

\* C2 witness: the loop has exited after three pages, the last one without a
\* nextOffset, and the response is sent.
C2_Witness ==
  \E r \in Reqs :
    /\ IsPS(r) /\ Succeeded(r)
    /\ Len(PageReplies(r)) = 3
    /\ "nextOffset" \notin DOMAIN PageReplies(r)[3].value

\* C3: every iteration of the draining loop that does not stop requests the
\* next page at a non-zero offset different from the offset just requested.
C3_CursorAdvances ==
  \A r \in Reqs :
    \A i \in 1..(Len(pageReqs[r]) - 1) :
      /\ pageReqs[r][i + 1].offset # 0
      /\ pageReqs[r][i + 1].offset # pageReqs[r][i].offset

\* C4: fetchSuggestions, fetchSteamGames and fetchPSGames answer a request
\* whose required parameter is absent or empty with 400 and make no outbound
\* call.
C4_MissingParam400 ==
  \A r \in Reqs :
    ((IsSearch(r) \/ IsSteam(r) \/ IsPS(r)) /\ param[r] \in {Undefined, ""}) =>
      (Answered(r, 400) /\ Len(calls[r]) = 0)

\* C4 witness: a fetchPSGames request with an empty username was answered.
C4_Witness ==
  \E r \in Reqs : IsPS(r) /\ param[r] = "" /\ pc[r] = "done"

\* C5: when the vanity lookup answers 2xx with a success value other than 1,
\* fetchSteamGames answers 404 and never makes the owned-games call.
C5_VanityNotFound404 ==
  \A r \in Reqs :
    (/\ IsSteam(r)
     /\ OkJson(r, 1)
     /\ "response" \in DOMAIN replies[r][1].json
     /\ replies[r][1].json.response.success # 1) =>
      (Answered(r, 404) /\ calls[r] = <<"ISteamUser/ResolveVanityURL">>)

\* C5 witness: the lookup answered success 42 (no match).
C5_Witness ==
  \E r \in Reqs :
    /\ IsSteam(r)
    /\ OkJson(r, 1)
    /\ "response" \in DOMAIN replies[r][1].json
    /\ replies[r][1].json.response.success = 42

\* a normalized game with a non-empty appid and name and a logo that is
\* absent or a non-empty string
WellShaped(g) ==
  /\ "appid" \in DOMAIN g /\ g.appid \notin {"", Null}
  /\ "name" \in DOMAIN g /\ g.name \notin {"", Null}
  /\ "logo" \in DOMAIN g => g.logo \notin {"", Null}

\* C6: every game of a successful fetchPSGames or fetchXboxGames response has
\* a non-empty appid and name, and a logo that is absent or a non-empty
\* string, whatever the upstream records carry.
C6_GamesWellShaped ==
  \A r \in Reqs :
    ((IsPS(r) \/ IsXbox(r)) /\ Succeeded(r)) =>
      \A i \in 1..Len(sent[r][1].json.games) : WellShaped(sent[r][1].json.games[i])

\* reply i of a fetchPSGames request is a failure of its step: the call
\* rejected, or the account search found no account
PsStepFailed(r, i) ==
  \/ replies[r][i].kind = "throw"
  \/ /\ i = 3
     /\ \/ Len(replies[r][i].value.domainResponses) = 0
        \/ Len(replies[r][i].value.domainResponses[1].results) = 0

\* C7: a failure at any step of the fetchPSGames chain ends the request with
\* a single 500 response that carries no games, and the failing call is the
\* last call the request makes.
C7_PsFailure500 ==
  \A r \in Reqs :
    IsPS(r) =>
      \A i \in 1..Len(replies[r]) :
        PsStepFailed(r, i) =>
          /\ Answered(r, 500)
          /\ "json" \notin DOMAIN sent[r][1]
          /\ i = Len(replies[r])
          /\ Len(calls[r]) = i

\* C7 witness: the second page fetch rejected after a first page with a kept
\* title was fetched.
C7_Witness ==
  \E r \in Reqs :
    /\ IsPS(r)
    /\ Len(replies[r]) = 5
    /\ replies[r][5].kind = "throw"
    /\ Len(psGames[r]) > 0

\* the calls of request r are pairwise different: nothing was called twice
NoRetry(r) == \A i, j \in 1..Len(calls[r]) : calls[r][i] = calls[r][j] => i = j

\* C8: when a hop of fetchSuggestions, fetchSteamGames or fetchXboxGames
\* answers with a non-2xx status, the response has exactly that status, no
\* later hop is called and no call is repeated.
C8_StatusPassThrough ==
  \A r \in Reqs :
    (IsSearch(r) \/ IsSteam(r) \/ IsXbox(r)) =>
      \A i \in 1..Len(replies[r]) :
        (replies[r][i].kind = "response" /\ replies[r][i].status \notin 200..299) =>
          /\ Answered(r, replies[r][i].status)
          /\ i = Len(replies[r])
          /\ Len(calls[r]) = i
          /\ NoRetry(r)

\* C8 witness: the second hop of fetchXboxGames answered 503.
C8_Witness ==
  \E r \in Reqs :
    /\ IsXbox(r)
    /\ Len(replies[r]) = 2
    /\ replies[r][2].kind = "response"
    /\ replies[r][2].status = 503
    /\ pc[r] = "done"

\* C9: when both hops succeed, fetchSteamGames answers 200 with a body that
\* has the one field games, holding one {appid, name} entry per upstream game
\* record in upstream order and nothing else.
C9_SteamBodyNormalized ==
  \A r \in Reqs :
    (/\ IsSteam(r)
     /\ OkJson(r, 2)
     /\ "games" \in DOMAIN replies[r][2].json.response) =>
      LET upstream == replies[r][2].json.response.games
      IN /\ Answered(r, 200)
         /\ "json" \in DOMAIN sent[r][1]
         /\ DOMAIN sent[r][1].json = {"games"}
         /\ sent[r][1].json.games =
              [i \in 1..Len(upstream) |->
                 [appid |-> upstream[i].appid, name |-> upstream[i].name]]

\* C10: when the gamertag search answers 2xx with an empty people list,
\* fetchXboxGames catches the exception, answers 500 and makes no second
\* outbound call.
C10_NoPeople500 ==
  \A r \in Reqs :
    (/\ IsXbox(r)
     /\ OkJson(r, 1)
     /\ "people" \in DOMAIN replies[r][1].json
     /\ Len(replies[r][1].json.people) = 0) =>
      (Answered(r, 500) /\ calls[r] = <<"xbl/search">>)

\* C10 witness: the search answered with an empty people list.
C10_Witness ==
  \E r \in Reqs :
    /\ IsXbox(r)
    /\ OkJson(r, 1)
    /\ "people" \in DOMAIN replies[r][1].json
    /\ replies[r][1].json.people = <<>>

\* the gamertag search of request r answered 2xx with at least one person
FoundPeople(r) ==
  /\ OkJson(r, 1)
  /\ "people" \in DOMAIN replies[r][1].json
  /\ Len(replies[r][1].json.people) > 0

\* C11: fetchXboxGames takes the account ID from the first person of the
\* search result; when that person's xuid is empty or only white space the
\* response is 404 and the title-history call is never made, and otherwise
\* the ID used is the first person's xuid without its surrounding white space.
C11_EmptyXuid404 ==
  \A r \in Reqs :
    (IsXbox(r) /\ FoundPeople(r) /\ "xuid" \in DOMAIN replies[r][1].json.people[1]) =>
      LET first == replies[r][1].json.people[1].xuid
      IN /\ first \in {"", " "} =>
              (Answered(r, 404) /\ calls[r] = <<"xbl/search">> /\ numericId[r] = "")
         /\ first \in {"2533", " 2533 "} =>
              (numericId[r] = "2533" /\ Len(calls[r]) = 2)

\* C11 witness: the first person's xuid is a single blank, a second hop was
\* never made and the request is answered.
C11_Witness ==
  \E r \in Reqs :
    /\ IsXbox(r) /\ FoundPeople(r)
    /\ Prop(replies[r][1].json.people[1], "xuid") = " "
    /\ pc[r] = "done"

\* C12 as claimed: fetchXboxGames with username absent issues the search call
\* and never answers 400.
C12_Never400 ==
  \A r \in Reqs :
    (IsXbox(r) /\ param[r] = Undefined) =>
      /\ Len(calls[r]) >= 1 /\ calls[r][1] = "xbl/search"
      /\ \A i \in 1..Len(sent[r]) : sent[r][i].status # 400

\* C12 amended: fetchXboxGames issues the search call whatever username is,
\* absent included, and answers 400 only with the status of an upstream reply
\* that was itself 400.
C12_NoValidation ==
  \A r \in Reqs :
    IsXbox(r) =>
      /\ Len(calls[r]) >= 1 /\ calls[r][1] = "xbl/search"
      /\ \A i \in 1..Len(sent[r]) :
           sent[r][i].status = 400 =>
             /\ Len(replies[r]) >= 1
             /\ replies[r][Len(replies[r])].kind = "response"
             /\ replies[r][Len(replies[r])].status = 400

\* C12 witness: a request without username has made its search call and has
\* gone on to the title-history call.
C12_Witness ==
  \E r \in Reqs :
    /\ IsXbox(r) /\ param[r] = Undefined
    /\ calls[r] = <<"xbl/search", "xbl/player/titleHistory">>

\* C13 as claimed: a request that has responded has made between one and
\* three outbound calls.
C13_OneToThreeCalls ==
  \A r \in Reqs : pc[r] = "done" => Len(calls[r]) \in 1..3

\* C13 amended: a request that has responded has made no call when its
\* required parameter is missing (all resolvers but fetchXboxGames), and
\* otherwise one call for fetchSuggestions, one or two for fetchSteamGames and
\* fetchXboxGames, and for fetchPSGames one to three calls of the token and
\* search chain followed by one call per page requested, which makes four or
\* more calls whenever a page was requested.
C13_CallCounts ==
  \A r \in Reqs :
    pc[r] = "done" =>
      IF ~IsXbox(r) /\ param[r] \in {Undefined, ""} THEN Len(calls[r]) = 0
      ELSE IF IsSearch(r) THEN Len(calls[r]) = 1
      ELSE IF IsSteam(r) \/ IsXbox(r) THEN Len(calls[r]) \in 1..2
      ELSE /\ Len(calls[r]) - Len(pageReqs[r]) \in 1..3
           /\ Len(pageReqs[r]) > 0 => Len(calls[r]) = 3 + Len(pageReqs[r])
           /\ Succeeded(r) => Len(calls[r]) >= 4

\* C13 witness: a fetchPSGames request has responded with success after five
\* outbound calls.
C13_Witness ==
  \E r \in Reqs : IsPS(r) /\ Succeeded(r) /\ pc[r] = "done" /\ Len(calls[r]) = 5

\* page reply i of request r says that no further page exists: the call
\* resolved with a page whose nextOffset is 0 or absent
SentinelPage(r, i) ==
  /\ PageReplies(r)[i].kind = "value"
  /\ \/ "nextOffset" \notin DOMAIN PageReplies(r)[i].value
     \/ PageReplies(r)[i].value.nextOffset = 0

\* C14: fetchPSGames requests its first page with offset 0 and limit 100 and
\* every later page with limit 100 and the nextOffset of the page before it,
\* and requests no page after the first page whose nextOffset is 0 or absent:
\* that page's position is the number of pages fetched.
C14_PagingProtocol ==
  \A r \in Reqs :
    (IsPS(r) /\ Len(pageReqs[r]) > 0) =>
      /\ pageReqs[r][1] = [limit |-> 100, offset |-> 0]
      /\ \A i \in 2..Len(pageReqs[r]) :
           /\ pageReqs[r][i].limit = 100
           /\ PageReplies(r)[i - 1].kind = "value"
           /\ "nextOffset" \in DOMAIN PageReplies(r)[i - 1].value
           /\ pageReqs[r][i].offset = PageReplies(r)[i - 1].value.nextOffset
      /\ \A i \in 1..Len(PageReplies(r)) :
           SentinelPage(r, i) =>
             (i = Len(PageReplies(r)) /\ i = Len(pageReqs[r]) /\ pc[r] = "done")

\* C14 witness: three pages were requested, at offsets 0, 200 and 100, and
\* the third had no nextOffset.
C14_Witness ==
  \E r \in Reqs :
    /\ IsPS(r) /\ Succeeded(r)
    /\ Len(pageReqs[r]) = 3
    /\ pageReqs[r][2].offset = 200
    /\ pageReqs[r][3].offset = 100
    /\ SentinelPage(r, 3)
    /\ "nextOffset" \notin DOMAIN PageReplies(r)[3].value

\* C15: against an upstream whose every page has a non-zero nextOffset and
\* that never fails, fetchPSGames has, after every page it received, another
\* page call outstanding and no response sent: no number of pages ends the
\* loop.
C15_NoCeiling ==
  \A r \in Reqs :
    Len(pageReqs[r]) > 0 =>
      /\ pc[r] = "awaitPlayedGames"
      /\ hasNextPage[r]
      /\ sent[r] = <<>>
      /\ Len(pageReqs[r]) = Len(PageReplies(r)) + 1
      /\ Len(calls[r]) = 3 + Len(pageReqs[r])

\* C15 witness: every page the upstream was followed for has been received
\* and the request has asked for one more.
C15_Witness ==
  \E r \in Reqs :
    /\ Len(PageReplies(r)) = MaxLoopPages
    /\ Len(pageReqs[r]) = MaxLoopPages + 1
    /\ pc[r] = "awaitPlayedGames"

\* reply i of request r is a success of its call: a resolved library call or
\* a 2xx response with a JSON body
ReplyOk(r, i) ==
  \/ replies[r][i].kind = "value"
  \/ /\ replies[r][i].kind = "response"
     /\ replies[r][i].status \in 200..299
     /\ "json" \in DOMAIN replies[r][i]

\* C16: a request has either a call outstanding and nothing sent, or all its
\* calls returned and exactly one response sent; it never sends a second
\* response, and a success response is sent only when every call succeeded.
C16_ExactlyOneResponse ==
  \A r \in Reqs :
    /\ Len(sent[r]) <= 1
    /\ pc[r] = "done" <=> Len(sent[r]) = 1
    /\ pc[r] = "done" => Len(calls[r]) = Len(replies[r])
    /\ pc[r] \notin {"idle", "done"} =>
         (sent[r] = <<>> /\ Len(calls[r]) = Len(replies[r]) + 1)
    /\ (Len(sent[r]) = 1 /\ "json" \in DOMAIN sent[r][1]) =>
         (sent[r][1].status = 200 /\ \A i \in 1..Len(replies[r]) : ReplyOk(r, i))

\* C16 witness: the second call of a fetchSteamGames request rejected and the
\* request has sent its one response, an error.
C16_Witness ==
  \E r \in Reqs :
    /\ IsSteam(r)
    /\ Len(replies[r]) = 2
    /\ replies[r][2].kind = "throw"
    /\ Len(sent[r]) = 1
    /\ sent[r][1].status = 500

IsPage(reply) == reply.kind = "value"

\* the games a request running alone accumulates from the pages it received
OwnGames(r) ==
  LET kept == SelectSeq(AllTitles(SelectSeq(PageReplies(r), IsPage)), Accepted)
  IN [i \in 1..Len(kept) |-> ExpectedPsGame(kept[i])]

\* the response a request running alone sends for the replies it received
AloneResponse(r) ==
  IF \E i \in 1..Len(replies[r]) : replies[r][i].kind = "throw"
    THEN [status |-> 500, text |-> "Failed to fetch PS games"]
    ELSE [status |-> 200, json |-> [total |-> Len(OwnGames(r)), games |-> OwnGames(r)]]

\* C17: with two fetchPSGames requests interleaved at their awaits, each
\* request's access code, account ID, offset and accumulated list come from
\* the replies to its own calls, and its response is the one it would send
\* running alone against those replies.
C17_Isolated ==
  \A r \in Reqs :
    /\ (Len(replies[r]) >= 1 /\ replies[r][1].kind = "value") =>
         accessCode[r] = replies[r][1].value
    /\ (Len(replies[r]) >= 3 /\ replies[r][3].kind = "value") =>
         accountId[r] = replies[r][3].value.domainResponses[1].results[1].socialMetadata.accountId
    /\ [i \in 1..Len(psGames[r]) |-> ToJson(psGames[r][i])] = OwnGames(r)
    /\ (Len(PageReplies(r)) >= 1 /\ PageReplies(r)[Len(PageReplies(r))].kind = "value") =>
         LET last == PageReplies(r)[Len(PageReplies(r))].value
         IN offset[r] = IF "nextOffset" \in DOMAIN last THEN last.nextOffset ELSE 0
    /\ pc[r] = "done" => sent[r] = <<AloneResponse(r)>>

\* C17 witness: both requests are suspended in the draining loop, each after
\* one page, holding different access codes, account IDs and lists.
C17_Witness ==
  /\ pc[1] = "awaitPlayedGames" /\ pc[2] = "awaitPlayedGames"
  /\ Len(PageReplies(1)) = 1 /\ Len(PageReplies(2)) = 1
  /\ accessCode[1] # accessCode[2]
  /\ accountId[1] # accountId[2]
  /\ Len(psGames[1]) = 1 /\ Len(psGames[2]) = 0

ExpectedXboxGame(t) ==
  IF "displayImage" \in DOMAIN t
    THEN [appid |-> t.titleId, name |-> t.name, logo |-> t.displayImage]
    ELSE [appid |-> t.titleId, name |-> t.name]

\* C18: when both hops succeed, fetchXboxGames answers with {games, total}:
\* one game {appid: titleId, name, logo: displayImage} per upstream title in
\* upstream order and total their number; when the upstream body has no
\* titles field the answer is a success with no games and total 0.
C18_XboxBody ==
  \A r \in Reqs :
    (IsXbox(r) /\ OkJson(r, 2)) =>
      LET data == replies[r][2].json
          body == sent[r][1].json
      IN /\ Answered(r, 200)
         /\ "json" \in DOMAIN sent[r][1]
         /\ DOMAIN body = {"games", "total"}
         /\ body.total = Len(body.games)
         /\ IF "titles" \in DOMAIN data
              THEN body.games = [i \in 1..Len(data.titles) |-> ExpectedXboxGame(data.titles[i])]
              ELSE body.games = <<>>

\* C18 witness: the title history answered 2xx without a titles field.
C18_Witness ==
  \E r \in Reqs :
    /\ IsXbox(r) /\ OkJson(r, 2)
    /\ "titles" \notin DOMAIN replies[r][2].json
    /\ pc[r] = "done"

\* C19: an owned-games reply without a games field ends fetchSteamGames with
\* 500, and a page without a titles field ends fetchPSGames with 500.
C19_AbsentList500 ==
  \A r \in Reqs :
    /\ (IsSteam(r) /\ OkJson(r, 2) /\ "games" \notin DOMAIN replies[r][2].json.response) =>
         Answered(r, 500)
    /\ (/\ IsPS(r)
        /\ \E i \in 1..Len(PageReplies(r)) :
             /\ PageReplies(r)[i].kind = "value"
             /\ "titles" \notin DOMAIN PageReplies(r)[i].value) =>
         Answered(r, 500)

====
